---- MODULE Spec2Model ----
(***************************************************************************)
(* Model of src/components/metrics.tsx: the metrics query browser page.    *)
(*                                                                         *)
(* The state is the part of the Redux tree the page reads (the list of     *)
(* queries), the React state of every QueryTable (data, error, page,       *)
(* perPage, sortBy), the fetches in flight, and the URL's query{i}         *)
(* parameters.  One action is one event handler together with the render   *)
(* and the effects it causes (usePoll's immediate tick, the reset effect   *)
(* of QueryTable, the URL effect of QueryBrowserWrapper).                  *)
(*                                                                         *)
(* Query indexes are 0-based as in the source; queries is a sequence, so   *)
(* the query at index i is queries[i + 1].                                 *)
(*                                                                         *)
(* A state setter (setData, setError, ...) is modelled as an assignment    *)
(* to the table's slot whether or not the component is still mounted, so   *)
(* that a handler running after an unmount is visible in the state.        *)
(***************************************************************************)
EXTENDS Integers, Sequences, FiniteSets, Bags, TLC

(* ------------------------------ bounds --------------------------------- *)

\* Most queries in the list at once.
MaxQueries == 2

\* Most fetches in flight at once.
MaxInFlight == 2

\* Most handlers run in one behaviour.
MaxSteps == 5

(* ------------------------------ values --------------------------------- *)

\* JavaScript's undefined, for string-valued fields.
Undefined == "undefined"

\* JavaScript's undefined, for object-valued state (data, error).
Undef == [defined |-> FALSE]

\* Query texts the user types or the URL carries.
Texts == {"a", "b"}

\* The text insertExampleQuery patches in (sort_desc(sum(...)) in the source).
ExampleQuery == "example"

\* The namespace prop of QueryTable.
Namespaces == {Undefined, "ns1"}

\* data.result of a response: a list of entries, each the label set (metric)
\* of a series and its value.
Results == {<<>>, <<[metric |-> "m1", value |-> "1"]>>}

\* The series of a query the graph has stored: lists of label sets.  The empty
\* list also stands for undefined, which _.differenceWith reads as no series.
NoSeries == <<>>
SeriesLists == {<<"m1", "m2">>}

\* Names of the errors a fetch rejects with.
AbortError == "AbortError"
OtherErrors == {"Error"}

\* Values of perPage the pagination control offers.
PerPageOptions == {50, 100}

\* Pages the pagination control offers.
Pages == {1, 2}

Indexes == 0 .. (MaxQueries - 1)

\* JavaScript truthiness of a string-valued field.
Truthy(v) == v # Undefined /\ v # ""

\* q || ''
OrEmpty(v) == IF Truthy(v) THEN v ELSE ""

\* _.trim(text) for the texts of the model (none has surrounding blanks).
Trim(v) == IF v = Undefined THEN "" ELSE v

\* useState(1), useState(50), useState({})
EmptySort == [sorted |-> FALSE]
InitialTable ==
    [data |-> Undef, error |-> Undef, page |-> 1, perPage |-> 50, sortBy |-> EmptySort]

(* ------------------------------ reducer -------------------------------- *)

NewQueryBrowserQuery ==
    [isEnabled |-> TRUE, isExpanded |-> TRUE, query |-> Undefined, text |-> Undefined,
     series |-> NoSeries]

\* The query at 0-based index i.
QueryAt(qs, i) == qs[i + 1]

HasQuery(qs, i) == i >= 0 /\ i < Len(qs)

\* queryBrowserPatchQuery(index, patch): merge into the query at index, creating
\* it from a new query when the list ends right before index.
PatchQuery(qs, i, patch) ==
    LET base == IF HasQuery(qs, i) THEN QueryAt(qs, i) ELSE NewQueryBrowserQuery
        merged == [k \in DOMAIN base |-> IF k \in DOMAIN patch THEN patch[k] ELSE base[k]]
    IN  IF HasQuery(qs, i) THEN [qs EXCEPT ![i + 1] = merged] ELSE Append(qs, merged)

AddQuery(qs) == Append(qs, NewQueryBrowserQuery)

DuplicateQuery(qs, i) ==
    Append(qs, [NewQueryBrowserQuery EXCEPT !.text = QueryAt(qs, i).text, !.isEnabled = FALSE])

DeleteAllQueries == <<NewQueryBrowserQuery>>

DeleteQuery(qs, i) ==
    LET rest == [k \in 1 .. (Len(qs) - 1) |-> IF k < i + 1 THEN qs[k] ELSE qs[k + 1]]
    IN  IF Len(rest) = 0 THEN <<NewQueryBrowserQuery>> ELSE rest

RunQueries(qs) ==
    [k \in 1 .. Len(qs) |->
        IF qs[k].isEnabled /\ qs[k].query # Trim(qs[k].text)
        THEN [qs[k] EXCEPT !.query = Trim(qs[k].text), !.series = NoSeries]
        ELSE qs[k]]

SetAllExpanded(qs, isExpanded) ==
    [k \in 1 .. Len(qs) |-> [qs[k] EXCEPT !.isExpanded = isExpanded]]

ToggleIsEnabled(qs, i) ==
    LET q == QueryAt(qs, i)
        isEnabled == ~q.isEnabled
    IN  [qs EXCEPT ![i + 1] = [q EXCEPT !.isEnabled = isEnabled,
                                        !.isExpanded = isEnabled,
                                        !.query = IF isEnabled THEN q.text ELSE ""]]

(* ------------------------------ QueryTable ----------------------------- *)

\* The condition of tick and of the first return of the render.
IsShown(q) == q.isEnabled /\ q.isExpanded /\ Truthy(q.query)

\* Mutant of Tick: the request is issued whatever the flags and the query are.
Tick_Unguarded(q, ns) == {[namespace |-> ns, query |-> q.query]}

\* tick: the requests it passes to safeFetch (none or one).
Tick(q, ns) ==
    IF IsShown(q) THEN {[namespace |-> ns, query |-> q.query]} ELSE {}

\* Mutant of OnFetchResolved: the error is not cleared.
OnFetchResolved_KeepsError(t, data) == [t EXCEPT !.data = data]

\* .then((response) => { setData(response.data); setError(undefined) })
OnFetchResolved(t, data) == [t EXCEPT !.data = data, !.error = Undef]

\* Mutant of OnFetchRejected: the data is not cleared.
OnFetchRejected_KeepsData(t, err) ==
    IF err.name # AbortError THEN [t EXCEPT !.error = err] ELSE t

\* Mutant of OnFetchRejected: the name of the error is not looked at.
OnFetchRejected_NoAbortCheck(t, err) == [t EXCEPT !.data = Undef, !.error = err]

\* .catch((err) => { if (err.name !== 'AbortError') { setData(undefined); setError(err) } })
OnFetchRejected(t, err) ==
    IF err.name # AbortError THEN [t EXCEPT !.data = Undef, !.error = err] ELSE t

\* Mutant of ResetEffect: the data is not cleared.
ResetEffect_KeepsData(t) == [t EXCEPT !.error = Undef, !.page = 1, !.sortBy = EmptySort]

\* React.useEffect(() => { setData(undefined); ... }, [namespace, query])
ResetEffect(t) ==
    [t EXCEPT !.data = Undef, !.error = Undef, !.page = 1, !.sortBy = EmptySort]

\* Mutant of ExpiredSeries: the series are not compared with the result.
ExpiredSeries_KeepsMatched(series, result) == series

\* _.differenceWith(series, data.result, (s, r) => _.isEqual(s, r.metric)): the
\* series, in their order, that equal the metric of no entry of the result.
ExpiredSeries(series, result) ==
    LET IsExpired(s) == \A k \in 1 .. Len(result) : result[k].metric # s
    IN  SelectSeq(series, IsExpired)

\* expiredSeries.length ? [...data.result, ...expiredSeries.map((metric) =>
\* ({ metric }))] : data.result
Result(t, q) ==
    LET expiredSeries == ExpiredSeries(q.series, t.data.result)
    IN  IF Len(expiredSeries) # 0
        THEN t.data.result \o [k \in 1 .. Len(expiredSeries) |-> [metric |-> expiredSeries[k]]]
        ELSE t.data.result

\* Mutant of View: the error is looked at before the flags and the query.
View_ErrorFirst(t, q) ==
    IF t.error.defined THEN "error"
    ELSE IF ~q.isEnabled \/ ~q.isExpanded \/ ~Truthy(q.query) THEN "none"
    ELSE IF ~t.data.defined THEN "loading"
    ELSE IF Len(Result(t, q)) = 0 THEN "nodata"
    ELSE "rows"

\* What the render returns: nothing, the error message, the loading indicator,
\* the 'No datapoints found.' message or the table of rows.
View(t, q) ==
    IF ~q.isEnabled \/ ~q.isExpanded \/ ~Truthy(q.query) THEN "none"
    ELSE IF t.error.defined THEN "error"
    ELSE IF ~t.data.defined THEN "loading"
    ELSE IF Len(Result(t, q)) = 0 THEN "nodata"
    ELSE "rows"

(* ------------------------------ QueryBrowserWrapper -------------------- *)

\* The patch the mount effect dispatches for the URL parameter query{i}.
SeedPatch(query) ==
    [isEnabled |-> TRUE, isExpanded |-> TRUE, query |-> query, text |-> query]

\* Mutant of SeedLoop: the loop goes on after a missing parameter.
RECURSIVE SeedLoop_SkipsGaps(_, _, _)
SeedLoop_SkipsGaps(qs, searchParams, i) ==
    IF i >= MaxQueries THEN qs
    ELSE IF i \in DOMAIN searchParams
    THEN SeedLoop_SkipsGaps(PatchQuery(qs, i, SeedPatch(searchParams[i])), searchParams, i + 1)
    ELSE SeedLoop_SkipsGaps(qs, searchParams, i + 1)

\* for (let i = 0; _.has(searchParams, `query${i}`); ++i) dispatch(patch(i, ...))
RECURSIVE SeedLoop(_, _, _)
SeedLoop(qs, searchParams, i) ==
    IF i \in DOMAIN searchParams
    THEN SeedLoop(PatchQuery(qs, i, SeedPatch(searchParams[i])), searchParams, i + 1)
    ELSE qs

InitFromURL(qs, searchParams) == SeedLoop(qs, searchParams, 0)

\* _.map(queries, 'query')
QueryStrings(qs) == [k \in 1 .. Len(qs) |-> qs[k].query]

\* Mutant of NewParams: the value is q, not q || ''.
NewParams_NoDefault(queryStrings) ==
    [i \in 0 .. (Len(queryStrings) - 1) |-> queryStrings[i + 1]]

\* _.each(queryStrings, (q, i) => (newParams[`query${i}`] = q || ''))
NewParams(queryStrings) ==
    [i \in 0 .. (Len(queryStrings) - 1) |-> OrEmpty(queryStrings[i + 1])]

\* setAllQueryArguments(newParams): the URL's parameters become newParams.
SetAllQueryArguments(newParams) == newParams

(* ------------------------------ state ---------------------------------- *)

VARIABLES
    queries,      \* observe.queryBrowser.queries
    namespace,    \* the namespace prop of the query tables
    pageMounted,  \* whether QueryBrowserPage is mounted
    tables,       \* index -> React state of the QueryTable with that key
    fetches,      \* bag of the requests passed to safeFetch whose handlers have not run
    urlParams,    \* index i -> value of the URL parameter query{i}
    lastOp,       \* the last handler that ran and the tables whose tick it ran
    steps         \* number of handlers run so far

vars == <<queries, namespace, pageMounted, tables, fetches, urlParams, lastOp, steps>>

\* One more handler runs.
Step == steps < MaxSteps /\ steps' = steps + 1

Op(op, index, ticked, name, wasError) ==
    [op |-> op, index |-> index, ticked |-> ticked, name |-> name, wasError |-> wasError]

\* The QueryTable with key i is mounted: QueriesList renders one per query.
Mounted(i) == pageMounted /\ HasQuery(queries, i)

\* The URLs a page may be opened with: any set of query{i} parameters, the
\* values alternating between the two texts so that neighbours differ.
UrlValue(i) == IF i % 2 = 0 THEN "a" ELSE "b"

UrlParamSets ==
    {[i \in S |-> UrlValue(i)] : S \in SUBSET Indexes}

Init ==
    /\ queries = <<NewQueryBrowserQuery>>
    /\ namespace = Undefined
    /\ pageMounted = FALSE
    /\ tables = [i \in Indexes |-> InitialTable]
    /\ fetches = EmptyBag
    /\ urlParams \in UrlParamSets
    /\ lastOp = Op("Init", -1, {}, "", FALSE)
    /\ steps = 0

\* useSafeFetch's cleanup: controller.abort() for the tables in unmounted.
AbortOne(f, unmounted) == [f EXCEPT !.aborted = f.aborted \/ f.index \in unmounted]

Abort(fs, unmounted) ==
    LET after == {AbortOne(f, unmounted) : f \in BagToSet(fs)}
        Sum(g) == CopiesIn(g, fs) +
                  (IF g.index \in unmounted
                   THEN CopiesIn([g EXCEPT !.aborted = FALSE], fs) ELSE 0)
    IN  [g \in after |-> Sum(g)]

\* The request a tick passes to safeFetch, as a fetch in flight of table i.
Fetch(i, request) ==
    [index |-> i, namespace |-> request.namespace, query |-> request.query,
     aborted |-> FALSE]

\* The fetches the ticks of the tables in ticked issue.
Issued(qs, ns, ticked) ==
    SetToBag(UNION {{Fetch(i, r) : r \in Tick(QueryAt(qs, i), ns)} : i \in ticked})

\* The page renders with the store holding newQs and the namespace prop newNs,
\* and its effects run.  old: the keys of the query tables mounted before.
\* runAll: lastRequestTime changed, so usePoll ticks every table.
Render(old, newQs, newNs, runAll, mounting, op, index) ==
    LET new == {i \in Indexes : HasQuery(newQs, i)}
        changed == {i \in old \cap new :
                        \/ QueryAt(newQs, i).query # QueryAt(queries, i).query
                        \/ newNs # namespace}
        ticked == (new \ old) \cup changed \cup (IF runAll THEN new ELSE {})
        issued == Issued(newQs, newNs, ticked)
    IN  /\ Step
        /\ Len(newQs) <= MaxQueries
        /\ queries' = newQs
        /\ namespace' = newNs
        /\ tables' = [i \in Indexes |->
                        IF i \notin new \/ i \notin old THEN InitialTable
                        ELSE IF i \in changed THEN ResetEffect(tables[i])
                        ELSE tables[i]]
        /\ fetches' = Abort(fetches, old \ new) (+) issued
        /\ BagCardinality(fetches') <= MaxInFlight
        /\ urlParams' = IF mounting \/ QueryStrings(newQs) # QueryStrings(queries)
                        THEN SetAllQueryArguments(NewParams(QueryStrings(newQs)))
                        ELSE urlParams
        /\ lastOp' = Op(op, index, ticked, "", FALSE)

\* A dispatched action has changed the store of the mounted page.
Commit(newQs, newNs, runAll, op, index) ==
    /\ pageMounted
    /\ Render({i \in Indexes : HasQuery(queries, i)}, newQs, newNs, runAll, FALSE, op, index)
    /\ UNCHANGED pageMounted

(* ------------------------------ page lifecycle ------------------------- *)

\* QueryBrowserPage mounts: the wrapper seeds the queries from the URL, then
\* every query table mounts and usePoll runs its first tick.
MountPage ==
    /\ ~pageMounted
    /\ pageMounted' = TRUE
    /\ Render({}, InitFromURL(queries, urlParams), namespace, FALSE, TRUE, "MountPage", -1)

\* QueryBrowserPage unmounts: every table's fetches are aborted and the page's
\* cleanup deletes all queries.
UnmountPage ==
    /\ pageMounted
    /\ Step
    /\ pageMounted' = FALSE
    /\ queries' = DeleteAllQueries
    /\ tables' = [i \in Indexes |-> InitialTable]
    /\ fetches' = Abort(fetches, Indexes)
    /\ lastOp' = Op("UnmountPage", -1, {}, "", FALSE)
    /\ UNCHANGED <<namespace, urlParams>>

\* The caller of QueryTable passes another namespace.
SetNamespace ==
    \E ns \in Namespaces :
        /\ ns # namespace
        /\ Commit(queries, ns, FALSE, "SetNamespace", -1)

(* ------------------------------ user actions --------------------------- *)

AddQueryButton ==
    /\ Len(queries) < MaxQueries
    /\ Commit(AddQuery(queries), namespace, FALSE, "AddQuery", -1)

\* 'Delete all queries' of the actions menu.
DeleteAll ==
    /\ pageMounted
    /\ Commit(DeleteAllQueries, namespace, FALSE, "DeleteAll", -1)

\* 'Collapse all query tables' / 'Expand all query tables' of the actions menu.
CollapseOrExpandAll ==
    \E isAllExpanded \in BOOLEAN :
        /\ isAllExpanded = (\A k \in 1 .. Len(queries) : queries[k].isExpanded)
        /\ Commit(SetAllExpanded(queries, ~isAllExpanded), namespace, FALSE,
                  "SetAllExpanded", -1)

KebabToggleIsEnabled ==
    \E i \in Indexes :
        /\ HasQuery(queries, i)
        /\ Commit(ToggleIsEnabled(queries, i), namespace, FALSE, "ToggleIsEnabled", i)

KebabDelete ==
    \E i \in Indexes :
        /\ HasQuery(queries, i)
        /\ Commit(DeleteQuery(queries, i), namespace, FALSE, "DeleteQuery", i)

KebabDuplicate ==
    \E i \in Indexes :
        /\ HasQuery(queries, i)
        /\ Commit(DuplicateQuery(queries, i), namespace, FALSE, "DuplicateQuery", i)

ToggleIsExpanded ==
    \E i \in Indexes :
        /\ HasQuery(queries, i)
        /\ Commit(PatchQuery(queries, i, [isExpanded |-> ~QueryAt(queries, i).isExpanded]),
                  namespace, FALSE, "ToggleIsExpanded", i)

HandleTextChange ==
    \E i \in Indexes, value \in Texts :
        /\ HasQuery(queries, i)
        /\ QueryAt(queries, i).text # value
        /\ Commit(PatchQuery(queries, i, [text |-> value]), namespace, FALSE, "TextChange", i)

\* The graph of the query browser stores the series of a query it has loaded:
\* queryBrowserPatchQuery(i, { series }) for a query with a query string.
GraphPatchesSeries ==
    \E i \in Indexes, series \in SeriesLists :
        /\ pageMounted
        /\ HasQuery(queries, i)
        /\ Truthy(QueryAt(queries, i).query)
        /\ QueryAt(queries, i).series # series
        /\ Commit(PatchQuery(queries, i, [series |-> series]), namespace, FALSE,
                  "GraphPatchesSeries", i)

\* The 'Insert example query' button of the empty state, shown while every
\* query string is empty: it patches the focused query, or query 0 when the
\* focused index holds no query.  focusedQuery may hold any index the user has
\* put the cursor in, so the patched index is any index that holds a query.
\* (The button is hidden while hideGraphs is set; ToggleGraph can always unset
\* it, so hideGraphs is left out of the state.)
InsertExampleQuery ==
    \E index \in Indexes :
        /\ HasQuery(queries, index)
        /\ \A k \in 1 .. Len(queries) : ~Truthy(queries[k].query)
        /\ Commit(PatchQuery(queries, index,
                      [isEnabled |-> TRUE, query |-> ExampleQuery, text |-> ExampleQuery]),
                  namespace, FALSE, "InsertExampleQuery", index)

\* 'Run queries', or the query input's onExecuteQuery.
RunQueriesButton ==
    /\ pageMounted
    /\ Commit(RunQueries(queries), namespace, TRUE, "RunQueries", -1)

\* The interval of usePoll elapses for the table with key i.
PollTick ==
    \E i \in Indexes :
        /\ Mounted(i)
        /\ Step
        /\ fetches' = fetches (+) Issued(queries, namespace, {i})
        /\ BagCardinality(fetches') <= MaxInFlight
        /\ lastOp' = Op("PollTick", i, {i}, "", FALSE)
        /\ UNCHANGED <<queries, namespace, pageMounted, tables, urlParams>>

(* ------------------------------ fetch outcomes ------------------------- *)

\* response.data of the request f, with the request it answers.
Data(f, result) ==
    [defined |-> TRUE, namespace |-> f.namespace, query |-> f.query, result |-> result]

\* The error a request rejects with.
Err(name) == [defined |-> TRUE, name |-> name]

\* The endpoint answers a request that was not aborted.
FetchResolved ==
    \E f \in BagToSet(fetches), result \in Results :
        /\ ~f.aborted
        /\ Step
        /\ tables' = [tables EXCEPT ![f.index] = OnFetchResolved(@, Data(f, result))]
        /\ fetches' = fetches (-) SetToBag({f})
        /\ lastOp' = Op("FetchResolved", f.index, {}, "", tables[f.index].error.defined)
        /\ UNCHANGED <<queries, namespace, pageMounted, urlParams>>

\* A request fails: with an AbortError when its controller was aborted, with
\* another error otherwise.
FetchRejected ==
    \E f \in BagToSet(fetches), name \in OtherErrors \cup {AbortError} :
        /\ (name = AbortError) <=> f.aborted
        /\ Step
        /\ tables' = [tables EXCEPT ![f.index] = OnFetchRejected(@, Err(name))]
        /\ fetches' = fetches (-) SetToBag({f})
        /\ lastOp' = Op("FetchRejected", f.index, {}, name, FALSE)
        /\ UNCHANGED <<queries, namespace, pageMounted, urlParams>>

(* ------------------------------ table controls ------------------------- *)

ShowsRows(i) == Mounted(i) /\ View(tables[i], QueryAt(queries, i)) = "rows"

SetPage ==
    \E i \in Indexes, p \in Pages :
        /\ ShowsRows(i)
        /\ Step
        /\ p # tables[i].page
        /\ tables' = [tables EXCEPT ![i].page = p]
        /\ lastOp' = Op("SetPage", i, {}, "", FALSE)
        /\ UNCHANGED <<queries, namespace, pageMounted, fetches, urlParams>>

SetPerPage ==
    \E i \in Indexes, n \in PerPageOptions :
        /\ ShowsRows(i)
        /\ Step
        /\ n # tables[i].perPage
        /\ tables' = [tables EXCEPT ![i].perPage = n]
        /\ lastOp' = Op("SetPerPage", i, {}, "", FALSE)
        /\ UNCHANGED <<queries, namespace, pageMounted, fetches, urlParams>>

\* onSort = (e, i, direction) => setSortBy({ index: i, direction })
OnSort ==
    \E i \in Indexes :
        /\ ShowsRows(i)
        /\ Step
        /\ tables[i].sortBy = EmptySort
        /\ tables' = [tables EXCEPT ![i].sortBy = [sorted |-> TRUE, index |-> 1, direction |-> "asc"]]
        /\ lastOp' = Op("OnSort", i, {}, "", FALSE)
        /\ UNCHANGED <<queries, namespace, pageMounted, fetches, urlParams>>

Next ==
    \/ MountPage
    \/ UnmountPage
    \/ SetNamespace
    \/ AddQueryButton
    \/ DeleteAll
    \/ CollapseOrExpandAll
    \/ KebabToggleIsEnabled
    \/ KebabDelete
    \/ KebabDuplicate
    \/ ToggleIsExpanded
    \/ HandleTextChange
    \/ InsertExampleQuery
    \/ RunQueriesButton
    \/ GraphPatchesSeries
    \/ PollTick
    \/ FetchResolved
    \/ FetchRejected
    \/ SetPage
    \/ SetPerPage
    \/ OnSort

Spec == Init /\ [][Next]_vars

TypeOK ==
    /\ Len(queries) \in 1 .. MaxQueries
    /\ steps \in 0 .. MaxSteps
    /\ BagCardinality(fetches) <= MaxInFlight
    /\ \A f \in BagToSet(fetches) : f.index \in Indexes

(* ------------------------------ helpers of the properties -------------- *)

\* The query shown by the table with key i, and what the table renders.
Q(i) == QueryAt(queries, i)
TableView(i) == View(tables[i], Q(i))

OutcomeOps == {"FetchResolved", "FetchRejected"}

(* ------------------------------ C1 -------------------------------------- *)

\* A rejection that is not an AbortError stores the error and clears the data.
C1_Stored(i) ==
    (lastOp'.op = "FetchRejected" /\ lastOp'.index = i /\ lastOp'.name # AbortError)
        => (tables'[i].error = Err(lastOp'.name) /\ ~tables'[i].data.defined)

\* The table with key i shows the error before the step, its query is shown
\* before and after it, and the step is no successful response for it.
C1_Stays(i) ==
    /\ Mounted(i) /\ Mounted(i)'
    /\ tables[i].error.defined
    /\ IsShown(Q(i)) /\ IsShown(Q(i))'
    /\ ~(lastOp'.op = "FetchResolved" /\ lastOp'.index = i)

\* C1 as claimed: a fetch that fails with an error other than AbortError sets
\* the table's error and clears its data, and from then on the table renders
\* the error message as long as the query is enabled, expanded and non-empty
\* and no later fetch succeeds.  (Stated for the steps that leave the namespace
\* prop alone and neither add nor delete a query, so that the table shows the
\* same query of the list before and after the step.)
C1_Original ==
    [][\A i \in Indexes :
        /\ C1_Stored(i)
        /\ (C1_Stays(i) /\ namespace' = namespace /\ Len(queries') = Len(queries))
              => TableView(i)' = "error"]_vars

\* C1 as amended: a fetch that fails with an error other than AbortError sets
\* the table's error and clears its data, and from then on the table renders
\* the error message as long as the query is enabled, expanded and non-empty,
\* its query text and the namespace do not change, and no later fetch succeeds.
C1_Amended ==
    [][\A i \in Indexes :
        /\ C1_Stored(i)
        /\ (C1_Stays(i) /\ Q(i)'.query = Q(i).query /\ namespace' = namespace)
              => TableView(i)' = "error"]_vars

\* A later tick of a table in the error view has run and the error is still shown.
C1_Witness ==
    \E i \in Indexes :
        /\ Mounted(i)
        /\ lastOp.op = "PollTick" /\ lastOp.index = i
        /\ TableView(i) = "error"

(* ------------------------------ C2 -------------------------------------- *)

\* C2: a fetch that fails with an AbortError leaves the table's data, error,
\* page, perPage and sortBy unchanged.
C2_AbortSuppressed ==
    [][\A i \in Indexes :
        (lastOp'.op = "FetchRejected" /\ lastOp'.index = i /\ lastOp'.name = AbortError)
            => /\ tables'[i].data = tables[i].data
               /\ tables'[i].error = tables[i].error
               /\ tables'[i].page = tables[i].page
               /\ tables'[i].perPage = tables[i].perPage
               /\ tables'[i].sortBy = tables[i].sortBy]_vars

\* An aborted request has been rejected while the table with its key holds
\* loaded data.
C2_Witness ==
    /\ lastOp.op = "FetchRejected"
    /\ lastOp.name = AbortError
    /\ tables[lastOp.index].data.defined

(* ------------------------------ C3 -------------------------------------- *)

\* C3: every fetch in flight of an unmounted table is aborted, the outcome of
\* an aborted fetch changes no table, and the data and error of a table that
\* stays unmounted do not change.
C3_UnmountCancels ==
    /\ [](\A f \in BagToSet(fetches) : ~Mounted(f.index) => f.aborted)
    /\ [][/\ \A f \in BagToSet(fetches) :
                (f.aborted /\ CopiesIn(f, fetches') < CopiesIn(f, fetches))
                    => tables' = tables
          /\ \A i \in Indexes :
                (~Mounted(i) /\ ~Mounted(i)')
                    => /\ tables'[i].data = tables[i].data
                       /\ tables'[i].error = tables[i].error]_vars

\* The outcome of a fetch of an unmounted table has arrived.
C3_Witness ==
    /\ lastOp.op = "FetchRejected"
    /\ lastOp.name = AbortError
    /\ ~Mounted(lastOp.index)

(* ------------------------------ C4 -------------------------------------- *)

\* C4: a table whose query is disabled, collapsed or empty renders nothing,
\* whatever data or error it holds.
C4_HiddenWhenOff ==
    \A i \in Indexes :
        (Mounted(i) /\ (~Q(i).isEnabled \/ ~Q(i).isExpanded \/ Q(i).query \in {Undefined, ""}))
            => TableView(i) = "none"

\* A disabled query's table holds data (a response arrived after the toggle).
C4_Witness ==
    \E i \in Indexes :
        /\ Mounted(i)
        /\ ~Q(i).isEnabled
        /\ tables[i].data.defined
        /\ TableView(i) = "none"

(* ------------------------------ C5 -------------------------------------- *)

\* Every request a table can have in flight that was not aborted.
LiveFetches ==
    [index : Indexes, namespace : Namespaces,
     query : Texts \cup {ExampleQuery, Undefined, ""},
     aborted : {FALSE}]

\* The tick of table f.index ran in the step and passed the request of f to
\* safeFetch: the query is shown and f asks for the current namespace and query.
C5_TickIssues(f) ==
    /\ f.index \in lastOp'.ticked
    /\ IsShown(Q(f.index))'
    /\ f.namespace = namespace'
    /\ f.query = Q(f.index)'.query

\* C5: a step puts one more copy of a request in flight exactly when it ran the
\* tick of that table with the query enabled, expanded and non-empty, and then
\* for the current namespace and query; in every other case it adds none, and
\* the handlers of a response run no tick.
C5_FetchOnlyFromTick ==
    [][/\ \A f \in LiveFetches :
            IF C5_TickIssues(f)
            THEN CopiesIn(f, fetches') = CopiesIn(f, fetches) + 1
            ELSE CopiesIn(f, fetches') <= CopiesIn(f, fetches)
       /\ lastOp'.op \in OutcomeOps => lastOp'.ticked = {}]_vars

\* A periodic tick of a shown query has issued a second fetch while the first
\* is still in flight.
C5_Witness ==
    \E i \in Indexes :
        /\ Mounted(i)
        /\ lastOp.op = "PollTick" /\ lastOp.index = i
        /\ IsShown(Q(i))
        /\ CopiesIn(Fetch(i, [namespace |-> namespace, query |-> Q(i).query]), fetches) = 2

(* ------------------------------ C6 -------------------------------------- *)

\* C6: a successful response stores its data in its table and clears that
\* table's error, so the table is not in the error view afterwards; and the
\* outcome of a fetch changes the state of no other table.
C6_ErrorRecoverable ==
    [][\A i \in Indexes :
        /\ (lastOp'.op = "FetchResolved" /\ lastOp'.index = i)
              => /\ \E f \in BagToSet(fetches), result \in Results :
                        /\ f.index = i
                        /\ CopiesIn(f, fetches') < CopiesIn(f, fetches)
                        /\ tables'[i].data = Data(f, result)
                 /\ ~tables'[i].error.defined
                 /\ TableView(i)' # "error"
        /\ (lastOp'.op \in OutcomeOps /\ lastOp'.index # i)
              => tables'[i] = tables[i]]_vars

\* A table that held an error has received a successful response and shows
\* its result.
C6_Witness ==
    /\ lastOp.op = "FetchResolved"
    /\ lastOp.wasError
    /\ Mounted(lastOp.index)
    /\ TableView(lastOp.index) \in {"rows", "nodata"}

(* ------------------------------ C7 -------------------------------------- *)

\* Number of leading URL parameters query0, query1, ... that are all present.
RECURSIVE SeededCount(_, _)
SeededCount(searchParams, n) ==
    IF n \in DOMAIN searchParams THEN SeededCount(searchParams, n + 1) ELSE n

\* C7: on mount the queries at the indexes of the leading run of URL
\* parameters are enabled, expanded and given the parameter's value as query
\* and text; no other query is created or changed.
C7_SeedFromURL ==
    [][lastOp'.op = "MountPage" =>
        LET n == SeededCount(urlParams, 0)
        IN  /\ Len(queries') = (IF n > Len(queries) THEN n ELSE Len(queries))
            /\ \A i \in 0 .. (Len(queries') - 1) :
                  IF i < n
                  THEN QueryAt(queries', i) =
                          [isEnabled |-> TRUE, isExpanded |-> TRUE,
                           query |-> urlParams[i], text |-> urlParams[i],
                           series |-> NoSeries]
                  ELSE QueryAt(queries', i) = QueryAt(queries, i)]_vars

\* The page has mounted with two seeded queries.
C7_Witness ==
    /\ lastOp.op = "MountPage"
    /\ Len(queries) = 2
    /\ queries[1].query \in Texts /\ queries[1].text = queries[1].query
    /\ queries[2].query \in Texts /\ queries[2].text = queries[2].query

(* ------------------------------ C8 -------------------------------------- *)

\* C8: stale results are never applied: the data of a table whose query is
\* enabled, expanded and non-empty (the data it renders) is the response to a
\* fetch that was issued for the table's current query text.
C8_NoStaleData ==
    \A i \in Indexes :
        (Mounted(i) /\ IsShown(Q(i)) /\ tables[i].data.defined)
            => tables[i].data.query = Q(i).query

(* ------------------------------ C9 -------------------------------------- *)

\* C9: when the namespace or the query text of a mounted table changes, its
\* data and error are cleared, its page is 1, its sortBy is empty and its
\* perPage is what it was; if the query is then enabled, expanded and
\* non-empty the table shows the loading indicator.
C9_ResetOnChange ==
    [][\A i \in Indexes :
        (/\ Mounted(i) /\ Mounted(i)'
         /\ (Q(i)'.query # Q(i).query \/ namespace' # namespace))
            => /\ tables'[i] = [data |-> Undef, error |-> Undef, page |-> 1,
                                perPage |-> tables[i].perPage, sortBy |-> EmptySort]
               /\ IsShown(Q(i))' => TableView(i)' = "loading"]_vars

\* The queries were re-run with a new text: the table shows the loading
\* indicator and keeps the perPage the user chose.
C9_Witness ==
    \E i \in Indexes :
        /\ Mounted(i)
        /\ lastOp.op = "RunQueries"
        /\ TableView(i) = "loading"
        /\ tables[i].perPage = 100

(* ------------------------------ C10 ------------------------------------- *)

\* C10: while the page is mounted the URL holds exactly one parameter
\* query{i} per query index i, with the query's query string or '' as value.
C10_UrlFollowsQueries ==
    pageMounted =>
        /\ DOMAIN urlParams = 0 .. (Len(queries) - 1)
        /\ \A i \in DOMAIN urlParams :
              urlParams[i] = (IF Q(i).query \in {Undefined, ""} THEN "" ELSE Q(i).query)

\* A query was deleted and the URL lost its parameter; the query left has no
\* query string and its parameter is ''.
C10_Witness ==
    /\ pageMounted
    /\ lastOp.op = "DeleteQuery"
    /\ DOMAIN urlParams = {0}
    /\ Q(0).query = Undefined
    /\ urlParams[0] = ""

(* ------------------------------ C11 ------------------------------------- *)

\* The rows of the table with key i, before sorting and pagination.
Rows(i) == Result(tables[i], Q(i))

\* The positions of the series of query i that equal no metric of the result.
ExpiredAt(i) ==
    LET result == tables[i].data.result
        metrics == {result[k].metric : k \in 1 .. Len(result)}
    IN  {j \in 1 .. Len(Q(i).series) : Q(i).series[j] \notin metrics}

C11_OnlyExpired ==
    /\ Mounted(0)
    /\ TableView(0) = "rows"
    /\ Len(tables[0].data.result) = 0
    /\ Rows(0) = <<[metric |-> "m1"], [metric |-> "m2"]>>

====
